---------------------------- MODULE Spec2Model ----------------------------
(***************************************************************************)
(* minigrep: the argument parser (Config::new), the orchestration (run),   *)
(* the two search functions of src/lib.rs and the binary's main of         *)
(* src/main.rs.                                                            *)
(*                                                                         *)
(* A string is a sequence of characters; a character is a one-character    *)
(* TLA+ string.  "\n" is LF, "\r" is CR.  Three characters outside ASCII    *)
(* go by their names: "SIGMA" is U+03A3 (Greek capital sigma), "sigma" is   *)
(* U+03C3 (small sigma), "final_sigma" is U+03C2 (small final sigma) and    *)
(* "backtick" is U+0060 (grave accent).                                    *)
(***************************************************************************)
EXTENDS Integers, Sequences, FiniteSets, TLC

VARIABLES
  args,       \* the process arguments, element 1 the program name
  env,        \* what env::var("CASE_INSENSITIVE") finds
  file,       \* what fs::read_to_string(filename) yields
  query,      \* the query handed to the search functions
  contents,   \* the text handed to the search functions
  pc,         \* the position of the program
  result,     \* the value Config::new returned
  results,    \* the Vec the search function returned
  stdout,     \* the lines printed so far
  status,     \* what run returned
  exit_code   \* the exit status of the process, -1 while it runs

vars ==
  <<args, env, file, query, contents, pc, result, results, stdout, status,
    exit_code>>

-----------------------------------------------------------------------------
(* Bounds of the model.                                                    *)

MaxQueryLen == 2
MaxContentsLen == 4
MaxTrailing == 2
MaxArgLen == 2

StringsUpTo(S, n) == UNION {[1..k -> S] : k \in 0..n}

Reverse(s) == [i \in 1..Len(s) |-> s[Len(s) + 1 - i]]

-----------------------------------------------------------------------------
(* Characters and str::to_lowercase.                                       *)

UpperAscii ==
  <<"A", "B", "C", "D", "E", "F", "G", "H", "I", "J", "K", "L", "M",
    "N", "O", "P", "Q", "R", "S", "T", "U", "V", "W", "X", "Y", "Z">>

LowerAscii ==
  <<"a", "b", "c", "d", "e", "f", "g", "h", "i", "j", "k", "l", "m",
    "n", "o", "p", "q", "r", "s", "t", "u", "v", "w", "x", "y", "z">>

SetOf(s) == {s[i] : i \in 1..Len(s)}

\* char::to_lowercase on the characters of the model: an ASCII capital maps
\* to its small letter, every other character but capital sigma to itself.
to_lower(c) ==
  IF c \in SetOf(UpperAscii)
    THEN LowerAscii[CHOOSE i \in 1..Len(UpperAscii) : UpperAscii[i] = c]
    ELSE c

\* The Unicode property Cased, on the characters of the model.
Cased(c) ==
  c \in SetOf(UpperAscii) \cup SetOf(LowerAscii)
         \cup {"SIGMA", "sigma", "final_sigma"}

\* The Unicode property Case_Ignorable, on the characters of the model.
Case_Ignorable(c) == c \in {"'", ".", ":"}

\* iter.skip_while(Case_Ignorable).next() is a cased character.
RECURSIVE case_ignorable_then_cased(_)
case_ignorable_then_cased(iter) ==
  IF iter = <<>> THEN FALSE
  ELSE IF Case_Ignorable(Head(iter)) THEN case_ignorable_then_cased(Tail(iter))
  ELSE Cased(Head(iter))

\* Capital sigma maps to the final small sigma at the end of a word (after a
\* cased letter and not before one), and to the small sigma elsewhere.
map_uppercase_sigma(from, i) ==
  LET is_word_final ==
        /\ case_ignorable_then_cased(Reverse(SubSeq(from, 1, i - 1)))
        /\ ~case_ignorable_then_cased(SubSeq(from, i + 1, Len(from)))
  IN  IF is_word_final THEN "final_sigma" ELSE "sigma"

\* str::to_lowercase.
to_lowercase(s) ==
  [i \in 1..Len(s) |->
     IF s[i] = "SIGMA" THEN map_uppercase_sigma(s, i) ELSE to_lower(s[i])]

-----------------------------------------------------------------------------
(* str::lines and str::contains.                                           *)

\* The index of the first "\n" of s, 0 when there is none.
FirstLF(s) ==
  IF \E i \in 1..Len(s) : s[i] = "\n"
    THEN CHOOSE i \in 1..Len(s) :
           s[i] = "\n" /\ \A j \in 1..(i - 1) : s[j] # "\n"
    ELSE 0

\* What Lines' map does to one piece of split_inclusive('\n'): strip the
\* "\n" and then, only if a "\n" was stripped, one "\r".
strip_line_ending(line) ==
  IF line # <<>> /\ line[Len(line)] = "\n"
    THEN LET l == SubSeq(line, 1, Len(line) - 1)
         IN  IF l # <<>> /\ l[Len(l)] = "\r"
               THEN SubSeq(l, 1, Len(l) - 1)
               ELSE l
    ELSE line

\* A mutant of lines: split('\n'), which yields one more, empty line after a
\* trailing newline and keeps the "\r" of "\r\n".
RECURSIVE lines_split(_)
lines_split(s) ==
  IF FirstLF(s) = 0 THEN <<s>>
  ELSE <<SubSeq(s, 1, FirstLF(s) - 1)>>
         \o lines_split(SubSeq(s, FirstLF(s) + 1, Len(s)))

\* str::lines: the pieces of split_inclusive('\n'), each without its line
\* ending.  The empty string has no line.
RECURSIVE lines(_)
lines(s) ==
  IF s = <<>> THEN <<>>
  ELSE IF FirstLF(s) = 0 THEN <<strip_line_ending(s)>>
  ELSE <<strip_line_ending(SubSeq(s, 1, FirstLF(s)))>>
         \o lines(SubSeq(s, FirstLF(s) + 1, Len(s)))

\* A mutant of contains: str::starts_with, the needle at the start only.
starts_with(haystack, needle) ==
  /\ Len(needle) <= Len(haystack)
  /\ SubSeq(haystack, 1, Len(needle)) = needle

\* str::contains with a string pattern.
contains(haystack, needle) ==
  \E i \in 0..(Len(haystack) - Len(needle)) :
    SubSeq(haystack, i + 1, i + Len(needle)) = needle

-----------------------------------------------------------------------------
(* search and search_case_insensitive.                                     *)

\* search: contents.lines().filter(|line| line.contains(query)).collect()
search(q, c) ==
  LET filter(line) == contains(line, q)
  IN  SelectSeq(lines(c), filter)

\* The loop of search_case_insensitive from line i on, with the Vec so far.
RECURSIVE search_loop(_, _, _, _)
search_loop(lowered, ls, i, acc) ==
  IF i > Len(ls) THEN acc
  ELSE search_loop(lowered, ls, i + 1,
         IF contains(to_lowercase(ls[i]), lowered)
           THEN Append(acc, ls[i])
           ELSE acc)

\* A mutant of search_case_insensitive: the query is not lowercased.
search_case_insensitive_raw_query(q, c) == search_loop(q, lines(c), 1, <<>>)

\* search_case_insensitive.
search_case_insensitive(q, c) ==
  search_loop(to_lowercase(q), lines(c), 1, <<>>)

-----------------------------------------------------------------------------
(* Config::new.                                                            *)

HELP_TEXT ==
  <<"<", "q", "u", "e", "r", "y", ">", " ", "<", "f", "i", "l", "e", ">",
    " ", "[", "-", "i", "]">>

UNSUFFICIENT_ARGUMENTS ==
  <<"U", "n", "s", "u", "f", "f", "i", "c", "i", "e", "n", "t", " ",
    "a", "r", "g", "u", "m", "e", "n", "t", "s">>

UNSUPPORTED_OPTION ==
  <<"U", "n", "s", "u", "p", "p", "o", "r", "t", "e", "d", " ",
    "o", "p", "t", "i", "o", "n">>

UNEXPECTED_ARGUMENT ==
  <<"U", "n", "e", "x", "p", "e", "c", "t", "e", "d", " ",
    "a", "r", "g", "u", "m", "e", "n", "t">>

Ok(v) == [kind |-> "Ok", value |-> v]
Err(e) == [kind |-> "Err", message |-> e]
Panic == [kind |-> "Panic"]

\* format!("{prog}: {err}\nUsage: {prog} {help}")
arguments_err(programname) ==
  Err(programname \o <<":", " ">> \o UNSUFFICIENT_ARGUMENTS
        \o <<"\n", "U", "s", "a", "g", "e", ":", " ">>
        \o programname \o <<" ">> \o HELP_TEXT)

\* format!("{prog}: {err} `{op}`\nUsage: {prog} {help}")
unsupported_option_err(programname, option) ==
  Err(programname \o <<":", " ">> \o UNSUPPORTED_OPTION
        \o <<" ", "backtick", option, "backtick">>
        \o <<"\n", "U", "s", "a", "g", "e", ":", " ">>
        \o programname \o <<" ">> \o HELP_TEXT)

\* format!("{prog}: {err} {first_token}{rest}\nUsage: {prog} {help}")
unexpected_argument_err(programname, first_token, rest) ==
  Err(programname \o <<":", " ">> \o UNEXPECTED_ARGUMENT
        \o <<" ", first_token>> \o rest
        \o <<"\n", "U", "s", "a", "g", "e", ":", " ">>
        \o programname \o <<" ">> \o HELP_TEXT)

\* env::var(key).is_err(): the variable is not set, or its value is not
\* valid Unicode.
env_var_is_err(e) == ~e.set \/ ~e.unicode

\* A mutant of parse_options: a letter that is no option is skipped.
RECURSIVE parse_options_skip_unknown(_, _)
parse_options_skip_unknown(arg_chars, case_sensitive) ==
  IF arg_chars = <<>> THEN [unsupported |-> FALSE, case_sensitive |-> case_sensitive]
  ELSE parse_options_skip_unknown(Tail(arg_chars),
         IF Head(arg_chars) = "i" THEN FALSE ELSE case_sensitive)

\* for option in arg_chars { match option { 'i' => ..., _ => return Err } }
\* on the characters after the '-': the first character that is no option,
\* or case_sensitive after the loop.
RECURSIVE parse_options(_, _)
parse_options(arg_chars, case_sensitive) ==
  IF arg_chars = <<>> THEN [unsupported |-> FALSE, case_sensitive |-> case_sensitive]
  ELSE IF Head(arg_chars) = "i" THEN parse_options(Tail(arg_chars), FALSE)
  ELSE [unsupported |-> TRUE, option |-> Head(arg_chars)]

\* for arg in args { ... } over the arguments after the file name, and the
\* Ok(Config { ... }) that follows the loop.
RECURSIVE parse_args(_, _, _, _, _)
parse_args(programname, q, filename, rest, case_sensitive) ==
  IF rest = <<>>
    THEN Ok([query |-> q, filename |-> filename,
             case_sensitive |-> case_sensitive])
  ELSE LET arg == Head(rest)
       IN  IF arg = <<>> THEN Panic   \* arg_chars.next().unwrap() on None
           ELSE IF Head(arg) = "-"
             THEN LET opts == parse_options(Tail(arg), case_sensitive)
                  IN  IF opts.unsupported
                        THEN unsupported_option_err(programname, opts.option)
                        ELSE parse_args(programname, q, filename, Tail(rest),
                                        opts.case_sensitive)
           ELSE unexpected_argument_err(programname, Head(arg), Tail(arg))

\* A mutant of Config_new: a missing file name defaults to the empty string.
Config_new_default_filename(a, e) ==
  IF Len(a) = 0 THEN Panic
  ELSE IF Len(a) < 2 THEN arguments_err(a[1])
  ELSE parse_args(a[1], a[2], IF Len(a) < 3 THEN <<>> ELSE a[3],
                  SubSeq(a, 4, Len(a)), env_var_is_err(e))

\* Config::new(args), with e what the environment holds for
\* CASE_INSENSITIVE.
Config_new(a, e) ==
  IF Len(a) = 0 THEN Panic            \* panic!("Unexpected error")
  ELSE IF Len(a) < 2 THEN arguments_err(a[1])
  ELSE IF Len(a) < 3 THEN arguments_err(a[1])
  ELSE parse_args(a[1], a[2], a[3], SubSeq(a, 4, Len(a)), env_var_is_err(e))

-----------------------------------------------------------------------------
(* The inputs of the tests of src/lib.rs.                                  *)

TestQueryDuct == <<"d", "u", "c", "t">>

TestContentsDuct ==
  <<"R", "u", "s", "t", ":", "\n",
    "s", "a", "f", "e", ",", " ", "f", "a", "s", "t", ",", " ",
    "p", "r", "o", "d", "u", "c", "t", "i", "v", "e", ".", "\n",
    "P", "i", "c", "k", " ", "t", "h", "r", "e", "e", ".", "\n",
    "D", "u", "c", "t", " ", "t", "a", "p", "e", ".">>

TestQueryRust == <<"r", "U", "s", "T">>

TestContentsRust ==
  <<"R", "u", "s", "t", ":", "\n",
    "s", "a", "f", "e", ",", " ", "f", "a", "s", "t", ",", " ",
    "p", "r", "o", "d", "u", "c", "t", "i", "v", "e", ".", "\n",
    "P", "i", "c", "k", " ", "t", "h", "r", "e", "e", ".", "\n",
    "T", "r", "u", "s", "t", " ", "m", "e", ".">>

-----------------------------------------------------------------------------
(* The search functions applied to bounded inputs.                         *)

\* The characters the generated queries and contents are made of: a letter
\* in both cases, the capital sigma, and the two line-ending characters.
SearchAlphabet == {"a", "A", "SIGMA", "\n", "\r"}

NoResult == [kind |-> "None"]

SearchInputs ==
  (StringsUpTo(SearchAlphabet, MaxQueryLen)
     \X StringsUpTo(SearchAlphabet, MaxContentsLen))
  \cup {<<TestQueryDuct, TestContentsDuct>>, <<TestQueryRust, TestContentsRust>>}

InitSearch ==
  /\ \E in \in SearchInputs : query = in[1] /\ contents = in[2]
  /\ pc = "start"
  /\ results = <<>>
  /\ args = <<>>
  /\ env = [set |-> FALSE, unicode |-> TRUE]
  /\ file = [ok |-> FALSE]
  /\ result = NoResult
  /\ stdout = <<>>
  /\ status = "none"
  /\ exit_code = -1

\* search(query, contents) is called.
Search ==
  /\ pc = "start"
  /\ results' = search(query, contents)
  /\ pc' = "search"
  /\ UNCHANGED <<args, env, file, query, contents, result, stdout, status,
                 exit_code>>

\* search_case_insensitive(query, contents) is called.
SearchCaseInsensitive ==
  /\ pc = "start"
  /\ results' = search_case_insensitive(query, contents)
  /\ pc' = "search_case_insensitive"
  /\ UNCHANGED <<args, env, file, query, contents, result, stdout, status,
                 exit_code>>

NextSearch == Search \/ SearchCaseInsensitive

SpecSearch == InitSearch /\ [][NextSearch]_vars

-----------------------------------------------------------------------------
(* What the claims about the search functions speak of, stated from the    *)
(* positions of the line feeds and not by the iteration of the code.       *)

LineFeeds(s) == {i \in 1..Len(s) : s[i] = "\n"}

\* The k-th smallest element of a set of numbers.
KthOf(S, k) == CHOOSE i \in S : Cardinality({j \in S : j <= i}) = k

\* A text has one line per line feed, and one more when text follows the
\* last line feed.
NumLines(s) ==
  Cardinality(LineFeeds(s))
    + (IF s # <<>> /\ s[Len(s)] # "\n" THEN 1 ELSE 0)

\* The k-th line: from after the line feed before it up to its own line feed
\* ("\n" or "\r\n") or, for an unterminated last line, the end of the text.
LineAt(s, k) ==
  LET first == IF k = 1 THEN 1 ELSE KthOf(LineFeeds(s), k - 1) + 1
      terminated == k <= Cardinality(LineFeeds(s))
      last == IF terminated THEN KthOf(LineFeeds(s), k) - 1 ELSE Len(s)
  IN  IF terminated /\ last >= first /\ s[last] = "\r"
        THEN SubSeq(s, first, last - 1)
        ELSE SubSeq(s, first, last)

LinesOf(s) == [k \in 1..NumLines(s) |-> LineAt(s, k)]

\* q occurs in line as a contiguous run of characters.
OccursIn(q, line) ==
  \E at \in 1..(Len(line) + 1) :
    \A j \in 1..Len(q) : at + j - 1 <= Len(line) /\ line[at + j - 1] = q[j]

\* res is the lines of ls at the positions in keep, in order, each once per
\* position.
IsSelection(res, ls, keep) ==
  /\ Len(res) = Cardinality(keep)
  /\ \A k \in 1..Len(res) : res[k] = ls[KthOf(keep, k)]

\* C1: for a non-empty query and non-empty contents, search returns exactly
\* the lines of contents that contain the query as a contiguous substring, in
\* their order and without deduplication; a line ends at "\n" or "\r\n", a
\* trailing newline adds no empty line and an unterminated last line is a
\* line.  The test case_sensitive of src/lib.rs is one instance.
C1_SearchIsLineFilter ==
  (pc = "search" /\ query # <<>> /\ contents # <<>>) =>
    /\ IsSelection(results, LinesOf(contents),
         {k \in 1..NumLines(contents) : OccursIn(query, LineAt(contents, k))})
    /\ (query = TestQueryDuct /\ contents = TestContentsDuct) =>
         results = << <<"s", "a", "f", "e", ",", " ", "f", "a", "s", "t", ",",
                        " ", "p", "r", "o", "d", "u", "c", "t", "i", "v", "e",
                        ".">> >>

\* C1 witness: a text of two equal matching lines, the second one
\* unterminated, has been searched and both lines were returned.
C1_Witness ==
  /\ pc = "search"
  /\ query = <<"a">>
  /\ contents = <<"a", "\n", "a">>
  /\ results = << <<"a">>, <<"a">> >>

\* C2: search_case_insensitive returns, in file order, exactly the lines
\* whose lowercased form contains the lowercased query, and each returned
\* element is the line as it stands in contents, not its lowercased form.
\* The test case_insensitive of src/lib.rs is one instance.
C2_CaseInsensitiveIsLoweredFilter ==
  (pc = "search_case_insensitive") =>
    /\ IsSelection(results, LinesOf(contents),
         {k \in 1..NumLines(contents) :
            OccursIn(to_lowercase(query), to_lowercase(LineAt(contents, k)))})
    /\ (query = TestQueryRust /\ contents = TestContentsRust) =>
         results = << <<"R", "u", "s", "t", ":">>,
                      <<"T", "r", "u", "s", "t", " ", "m", "e", ".">> >>

\* C2 witness: the query "A" found the line "a" and the line "A" and each was
\* returned in its own case.
C2_Witness ==
  /\ pc = "search_case_insensitive"
  /\ query = <<"A">>
  /\ contents = <<"a", "\n", "A">>
  /\ results = << <<"a">>, <<"A">> >>

\* C9: every line the case-sensitive search returns is also returned by the
\* case-insensitive search on the same inputs, which therefore returns at
\* least as many lines.
C9_CaseInsensitiveIsSuperset ==
  (pc = "search") =>
    LET ci == search_case_insensitive(query, contents)
    IN  /\ \A i \in 1..Len(results) : \E j \in 1..Len(ci) : ci[j] = results[i]
        /\ Len(results) <= Len(ci)

\* C10: with an empty query both search functions return every line of
\* contents, in order.
C10_EmptyQueryReturnsEveryLine ==
  (pc \in {"search", "search_case_insensitive"} /\ query = <<>>) =>
    results = LinesOf(contents)

\* C10 witness: the case-insensitive search with an empty query returned the
\* three lines of a text, the empty middle line included.
C10_Witness ==
  /\ pc = "search_case_insensitive"
  /\ query = <<>>
  /\ contents = <<"A", "\n", "\n", "a">>
  /\ results = << <<"A">>, <<>>, <<"a">> >>

-----------------------------------------------------------------------------
(* The library called on the arguments of a process: Config::new, then run *)
(* on the Config it returned.                                              *)

\* The characters the generated trailing arguments are made of.
OptionAlphabet == {"-", "i", "x"}

ProgramNames == {<<"m">>, <<"m", "g">>}

TestArgs ==
  << <<"p", "r", "o", "g">>, <<"w", "o", "r", "d">>,
     <<"/", "n", "o", "n", "e", "x", "i", "s", "t", "e", "n", "t", "/",
       "f", "i", "l", "e">> >>

\* The argument lists: nothing at all, a program name alone, with a query,
\* and with a query, a file name and trailing arguments.  Each argument is a
\* String, as env::Args yields them.
ArgLists ==
  {<<>>}
  \cup {<<p>> : p \in ProgramNames}
  \cup {<<p, <<"a">> >> : p \in ProgramNames}
  \cup {<<p, <<"a">>, <<"f">> >> \o t :
          p \in ProgramNames,
          t \in StringsUpTo(StringsUpTo(OptionAlphabet, MaxArgLen), MaxTrailing)}
  \cup {TestArgs}

\* CASE_INSENSITIVE is not set, or set to a value that is or is not valid
\* Unicode.
EnvStates ==
  {[set |-> FALSE, unicode |-> TRUE],
   [set |-> TRUE, unicode |-> TRUE],
   [set |-> TRUE, unicode |-> FALSE]}

\* The file cannot be read as text, or holds a text.
FileStates ==
  {[ok |-> FALSE],
   [ok |-> TRUE, text |-> <<"a", "\n", "A", "\r", "\n">>]}

Init ==
  /\ args \in ArgLists
  /\ env \in EnvStates
  /\ file \in FileStates
  /\ pc = "start"
  /\ result = NoResult
  /\ query = <<>>
  /\ contents = <<>>
  /\ results = <<>>
  /\ stdout = <<>>
  /\ status = "none"
  /\ exit_code = -1

\* Config::new(env::args())
ConfigNew ==
  /\ pc = "start"
  /\ result' = Config_new(args, env)
  /\ pc' = "parsed"
  /\ UNCHANGED <<args, env, file, query, contents, results, stdout, status,
                 exit_code>>

\* run(config) with the Config that Config::new returned: the file is read
\* first and its error returned with nothing printed; otherwise the lines
\* found are printed in order.
Run ==
  /\ pc = "parsed"
  /\ result.kind = "Ok"
  /\ pc' = "ran"
  /\ query' = result.value.query
  /\ IF ~file.ok
       THEN /\ status' = "Err"
            /\ UNCHANGED <<contents, results, stdout>>
       ELSE /\ contents' = file.text
            /\ results' = IF result.value.case_sensitive
                            THEN search(result.value.query, file.text)
                            ELSE search_case_insensitive(result.value.query,
                                                         file.text)
            /\ stdout' = stdout \o results'
            /\ status' = "Ok"
  /\ UNCHANGED <<args, env, file, result, exit_code>>

Next == ConfigNew \/ Run

Spec == Init /\ [][Next]_vars

-----------------------------------------------------------------------------
(* The binary: main of src/main.rs.                                        *)

\* main: with fewer than 3 arguments the usage line is printed and the
\* process exits with 1 (indexing args[0] of an empty list panics, exit
\* status 101); otherwise two lines are printed and main returns.
Main ==
  /\ pc = "start"
  /\ pc' = "exited"
  /\ IF Len(args) < 3
       THEN IF Len(args) = 0
              THEN /\ exit_code' = 101
                   /\ UNCHANGED stdout
              ELSE /\ stdout' = Append(stdout,
                        <<"U", "s", "a", "g", "e", ":", " ">> \o args[1]
                          \o <<" ", "<", "q", "u", "e", "r", "y", ">", " ", "<",
                               "f", "i", "l", "e", "n", "a", "m", "e", ">">>)
                   /\ exit_code' = 1
       ELSE /\ stdout' = stdout
                 \o << <<"S", "e", "a", "r", "c", "h", "i", "n", "g", " ",
                         "f", "o", "r", " ">> \o args[2],
                       <<"I", "n", " ", "f", "i", "l", "e", " ">> \o args[3] >>
            /\ exit_code' = 0
  /\ UNCHANGED <<args, env, file, query, contents, result, results, status>>

NextMain == Main

SpecMain == Init /\ [][NextMain]_vars

-----------------------------------------------------------------------------
(* The claims about Config::new and the process.                           *)

UsageLine(programname) ==
  <<"\n", "U", "s", "a", "g", "e", ":", " ">> \o programname
    \o <<" ", "<", "q", "u", "e", "r", "y", ">", " ", "<", "f", "i", "l", "e",
         ">", " ", "[", "-", "i", "]">>

Letters == SetOf(UpperAscii) \cup SetOf(LowerAscii)

\* The trailing arguments are args[4], args[5], ...: the arguments of index 3
\* and up, counted from 0.
Trailing == 4..Len(args)

\* An argument that sets option i and nothing else: "-i", "-ii", ...
IsOptionI(arg) ==
  /\ Len(arg) >= 2
  /\ arg[1] = "-"
  /\ \A j \in 2..Len(arg) : arg[j] = "i"

\* The parser reaches args[k]: every trailing argument before it is "-i".
FirstRejected(k) == \A j \in 4..(k - 1) : IsOptionI(args[j])

\* C3: Config::new over an argument list of fewer than 3 elements, the
\* program name among them, returns the error of insufficient arguments,
\* whose message is "<program>: <error text>\nUsage: <program> <query> <file>
\* [-i]", and never a Config.
C3_TooFewArguments ==
  (pc = "parsed" /\ Len(args) \in 1..2) =>
    /\ result.kind = "Err"
    /\ result.message =
         args[1] \o <<":", " ">> \o UNSUFFICIENT_ARGUMENTS \o UsageLine(args[1])

\* C3 witness: Config::new has returned an error for a program name and a
\* query without a file name.
C3_Witness ==
  /\ pc = "parsed"
  /\ Len(args) = 2
  /\ result.kind = "Err"

\* C4: the Config has case_sensitive true when CASE_INSENSITIVE is not set
\* and no trailing argument carries option i, and false whenever
\* CASE_INSENSITIVE is present, whatever its value, and whenever a trailing
\* argument carries option i.
C4_CaseSensitivity ==
  (pc = "parsed" /\ result.kind = "Ok") =>
    LET carries_i == \E k \in Trailing : \E j \in 2..Len(args[k]) :
                       args[k][1] = "-" /\ args[k][j] = "i"
    IN  /\ (~env.set /\ ~carries_i) => result.value.case_sensitive
        /\ env.set => ~result.value.case_sensitive
        /\ carries_i => ~result.value.case_sensitive

\* C5: a trailing argument that does not start with "-" makes Config::new
\* return the error of an unexpected argument, naming that token, and never
\* panic or return a Config.  Stated of the first argument the parser does
\* not accept, the one it stops at.
C5_UnexpectedArgument ==
  (pc = "parsed" /\ Len(args) >= 3) =>
    \A k \in Trailing :
      (FirstRejected(k) /\ (args[k] = <<>> \/ args[k][1] # "-")) =>
        /\ result.kind = "Err"
        /\ result.message =
             args[1] \o <<":", " ">> \o UNEXPECTED_ARGUMENT \o <<" ">>
               \o args[k] \o UsageLine(args[1])

\* C6 as stated: a trailing argument "-x", x a letter other than i, anywhere
\* among the trailing arguments makes Config::new return the error of an
\* unsupported option naming x and the program name.  Only the runs in which
\* Config::new returns are looked at, so that no panic on an earlier argument
\* (C5) counts against the statement.
C6_UnsupportedOptionAnywhere ==
  (pc = "parsed" /\ Len(args) >= 3 /\ result.kind # "Panic") =>
    \A k \in Trailing :
      (Len(args[k]) = 2 /\ args[k][1] = "-"
         /\ args[k][2] \in Letters \ {"i"}) =>
        /\ result.kind = "Err"
        /\ result.message =
             args[1] \o <<":", " ">> \o UNSUPPORTED_OPTION
               \o <<" ", "backtick", args[k][2], "backtick">>
               \o UsageLine(args[1])

\* C6 as amended: a trailing argument "-x", x a letter other than i, with
\* every trailing argument before it a "-" followed by one or more "i",
\* makes Config::new return the error of an unsupported option naming x and
\* the program name.
C6_UnsupportedOptionFirst ==
  (pc = "parsed" /\ Len(args) >= 3) =>
    \A k \in Trailing :
      (FirstRejected(k) /\ Len(args[k]) = 2 /\ args[k][1] = "-"
         /\ args[k][2] \in Letters \ {"i"}) =>
        /\ result.kind = "Err"
        /\ result.message =
             args[1] \o <<":", " ">> \o UNSUPPORTED_OPTION
               \o <<" ", "backtick", args[k][2], "backtick">>
               \o UsageLine(args[1])

\* C6 witness: "-x" after "-i" has been parsed and the error names x.
C6_Witness ==
  /\ pc = "parsed"
  /\ args = << <<"m">>, <<"a">>, <<"f">>, <<"-", "i">>, <<"-", "x">> >>
  /\ result.kind = "Err"
  /\ \E n \in 1..Len(result.message) :
       SubSeq(result.message, n, n + 2) = <<"backtick", "x", "backtick">>

\* C7: a trailing argument that is just "-" makes Config::new fail with the
\* error of an unsupported option, the option empty; it is never accepted
\* and never panics.  Stated of a "-" the parser reaches.
C7_BareDashRejected ==
  (pc = "parsed" /\ Len(args) >= 3) =>
    \A k \in Trailing :
      (FirstRejected(k) /\ args[k] = <<"-">>) =>
        /\ result.kind = "Err"
        /\ result.message =
             args[1] \o <<":", " ">> \o UNSUPPORTED_OPTION
               \o <<" ", "backtick", "backtick">> \o UsageLine(args[1])

\* C8: a process started with a query and a file that cannot be read prints
\* nothing to standard output and ends with a non-zero exit status.
C8_UnreadableFileFails ==
  (pc = "exited" /\ Len(args) = 3 /\ ~file.ok) =>
    /\ stdout = <<>>
    /\ exit_code # 0

=============================================================================
